---------------------------- MODULE Spec2Model ----------------------------
(***************************************************************************)
(* A model of the KAIAWallet facade (src/KAIAWallet.js): one wallet handle *)
(* bound at construction, and seven methods that forward to the ethers v6  *)
(* collaborators (JsonRpcProvider, Wallet, Contract, parseUnits,           *)
(* formatUnits).  Every async method is modelled as the segments between   *)
(* its await points; a collaborator request is answered by the environment *)
(* with a value or with a failure.                                         *)
(*                                                                         *)
(* Decimal strings are sequences of one-character strings, and integers in *)
(* the smallest unit (JavaScript bigints) are kept as their decimal digit  *)
(* strings, as ethers itself builds and reads them (BigInt of a string,     *)
(* toString of a bigint); they exceed 32-bit machine integers.             *)
(***************************************************************************)
EXTENDS Integers, Sequences, FiniteSets, TLC

VARIABLES
    ctor,       \* history: the arguments (and entropy drawn) of the constructor call
    facade,     \* the KAIAWallet instance: this.provider, this.wallet, console output
    calls,      \* the method calls made on the instance, one record per call
    submitted,  \* the network: transactions accepted into the pending pool, in order
    mined,      \* the network: hashes of the transactions that have a receipt
    units       \* the unit-conversion round trip under test (SpecUnits only)

vars == <<ctor, facade, calls, submitted, mined, units>>

---------------------------------------------------------------------------
(* Bounds of the model *)

\* calls made on one facade instance (all may be in flight together)
MaxCalls == 2
\* transactions the network accepts in one behaviour
MaxTx == 2
\* longest amount string drawn in the unit-conversion specification
MaxLen == 3

---------------------------------------------------------------------------
(* Program constants *)

\* formatEther / parseEther: the fixed exponent of the native coin
EtherDecimals == 18
\* ERC20_ABI: decimals() returns a uint8
Uint8Max == 255
\* ethers FixedNumber format: decimals <= 80 is asserted by getFormat
MaxFixedDecimals == 80

---------------------------------------------------------------------------
(* Strings and bigints *)

Digits == {"0", "1", "2", "3", "4", "5", "6", "7", "8", "9"}

SetMin(S) == CHOOSE x \in S : \A y \in S : x <= y
SetMax(S) == CHOOSE x \in S : \A y \in S : x >= y

Zeros(n) == [i \in 1..n |-> "0"]

\* BigInt(sign + digits): leading zeros are dropped, the empty and the all-zero
\* digit string give 0, and 0 has no sign.
BigIntOf(neg, ds) ==
    LET nz == {i \in 1..Len(ds) : ds[i] # "0"}
        m  == IF nz = {} THEN <<"0">> ELSE SubSeq(ds, SetMin(nz), Len(ds))
    IN  IF neg /\ m # <<"0">> THEN <<"-">> \o m ELSE m

Ok(v)      == [ok |-> TRUE,  val |-> v,    err |-> "none"]
Throw(e)   == [ok |-> FALSE, val |-> <<>>, err |-> e]

\* ethers.parseUnits(value, decimals) = FixedNumber.fromString(value,
\* {decimals, width: 512}).value: the string must match
\* /^(-?)([0-9]*)\.?([0-9]*)$/ with at least one digit; the format must have
\* decimals <= 80; the fraction is padded with zeros to `decimals` places and
\* whatever lies beyond them must be zeros; the result is
\* BigInt(sign + whole + fraction).  The format's range check (|value| < 2^511,
\* 154 digits) is out of reach of amounts of MaxLen characters scaled by at
\* most 80 places, and is left out.
parseUnits(value, decimals) ==
    LET neg   == Len(value) > 0 /\ value[1] = "-"
        body  == IF neg THEN Tail(value) ELSE value
        dots  == {i \in 1..Len(body) : body[i] = "."}
        match == /\ \A i \in 1..Len(body) : body[i] \in Digits \cup {"."}
                 /\ Cardinality(dots) <= 1
        dot   == IF dots = {} THEN Len(body) + 1 ELSE SetMin(dots)
        whole == SubSeq(body, 1, dot - 1)
        frac  == SubSeq(body, dot + 1, Len(body))
        padded == IF Len(frac) < decimals
                     THEN frac \o Zeros(decimals - Len(frac)) ELSE frac
        beyond == SubSeq(padded, decimals + 1, Len(padded))
    IN  IF ~match \/ Len(whole) + Len(frac) = 0
            THEN Throw("INVALID_ARGUMENT: invalid FixedNumber string value")
        ELSE IF decimals > MaxFixedDecimals
            THEN Throw("INVALID_ARGUMENT: invalid FixedNumber decimals (too large)")
        ELSE IF \E i \in 1..Len(beyond) : beyond[i] # "0"
            THEN Throw("NUMERIC_FAULT: too many decimals for format")
        ELSE Ok(BigIntOf(neg, (IF whole = <<>> THEN <<"0">> ELSE whole)
                                \o SubSeq(padded, 1, decimals)))

\* formatUnits with the left padding one place short (`<` for `<=`): a value
\* below one unit loses its whole digit
formatUnits_PadsOneShort(value, decimals) ==
    LET neg  == Len(value) > 0 /\ value[1] = "-"
        str  == IF neg THEN Tail(value) ELSE value
        sign == IF neg THEN <<"-">> ELSE <<>>
        full == IF Len(str) < decimals
                   THEN Zeros(decimals - Len(str)) \o str ELSE str
        index == Len(full) - decimals
        frac  == SubSeq(full, index + 1, Len(full))
        nz    == {i \in 1..Len(frac) : frac[i] # "0"}
        keep  == IF nz = {} THEN 1 ELSE SetMax(nz)
    IN  IF decimals > MaxFixedDecimals
            THEN Throw("INVALID_ARGUMENT: invalid FixedNumber decimals (too large)")
        ELSE IF decimals = 0 THEN Ok(sign \o str)
        ELSE Ok(sign \o SubSeq(full, 1, index) \o <<".">> \o SubSeq(frac, 1, keep))

\* ethers.formatUnits(value, decimals) = FixedNumber.fromValue(value, decimals,
\* {decimals, width: 512}).toString(): no point when decimals = 0; otherwise
\* the digits are padded on the left to decimals + 1 places, the point is put
\* `decimals` places from the right, and the fraction loses its trailing zeros
\* but keeps one digit.
formatUnits(value, decimals) ==
    LET neg  == Len(value) > 0 /\ value[1] = "-"
        str  == IF neg THEN Tail(value) ELSE value
        sign == IF neg THEN <<"-">> ELSE <<>>
        full == IF Len(str) <= decimals
                   THEN Zeros(decimals + 1 - Len(str)) \o str ELSE str
        index == Len(full) - decimals
        frac  == SubSeq(full, index + 1, Len(full))
        nz    == {i \in 1..Len(frac) : frac[i] # "0"}
        keep  == IF nz = {} THEN 1 ELSE SetMax(nz)
    IN  IF decimals > MaxFixedDecimals
            THEN Throw("INVALID_ARGUMENT: invalid FixedNumber decimals (too large)")
        ELSE IF decimals = 0 THEN Ok(sign \o str)
        ELSE Ok(sign \o SubSeq(full, 1, index) \o <<".">> \o SubSeq(frac, 1, keep))

\* ethers.parseEther / formatEther: the same with the fixed exponent 18
parseEther(ether) == parseUnits(ether, EtherDecimals)
formatEther(wei)  == formatUnits(wei, EtherDecimals)


---------------------------------------------------------------------------
(* The values of the model *)

Null      == "<null>"
Undefined == "<undefined>"

\* the private-key arguments tried: absent, empty, two well-formed keys, a malformed one
ValidKeys      == {"key1", "key2"}
PrivateKeyArgs == {Null, Undefined, "", "malformed"} \cup ValidKeys
\* the keys ethers.Wallet.createRandom() may draw
RandomKeys     == {"rnd1", "rnd2"}
ProviderUrls   == {"rpcA", "rpcB"}

Calls      == 1..MaxCalls
Tokens     == {"tokA", "tokB"}
\* the (to, amountInEther) passed to sendTransaction: a fractional amount, the
\* zero amount, a string that is no number
SendTransactionArgs ==
    {<<"to1", <<"1", ".", "5">>>>, <<"to2", <<"0">>>>, <<"to1", <<"x">>>>}
\* the (tokenAddress, to, amount) passed to sendToken
SendTokenArgs ==
    {<<"tokA", "to1", <<"1", ".", "5">>>>, <<"tokB", "to2", <<"2">>>>,
     <<"tokA", "to2", <<"x">>>>}
\* what decimals() may answer (a uint8), and what balance queries may answer (a uint256)
DecimalsAnswers == {0, 2, MaxFixedDecimals + 1}
BalanceAnswers  == {<<"0">>, <<"1", "5", "0">>}
\* failures a collaborator request may end with
Errors == {"NetworkError", "ContractCallError"}
\* a hash no transaction ever gets (the network hands out 1..MaxTx)
UnknownHash == MaxTx + 1
HashArgs    == (1..MaxTx) \cup {UnknownHash}

\* JavaScript truthiness of the privateKey argument: null, undefined and "" are falsy
Truthy(x) == x \notin {Null, Undefined, ""}

\* the address and the mnemonic phrase an identity derives from its key
AddressOf(key)  == [account |-> key]
MnemonicOf(key) == [present |-> TRUE, seed |-> key]
NoMnemonic      == [present |-> FALSE, seed |-> Null]

\* results and collaborator answers are tagged values
NoValue       == [kind |-> "none"]
TextValue(t)  == [kind |-> "text", text |-> t]
StrValue(s)   == [kind |-> "string", str |-> s]
IntValue(n)   == [kind |-> "number", n |-> n]
BigValue(ds)  == [kind |-> "bigint", digits |-> ds]
TxValue(h)    == [kind |-> "TransactionResponse", hash |-> h]
RcptValue(h)  == [kind |-> "TransactionReceipt", hash |-> h]
NullValue     == [kind |-> "null"]

\* a promise's state
Unsettled    == [status |-> "pending",   value |-> NoValue, error |-> "none"]
Fulfilled(v) == [status |-> "fulfilled", value |-> v,       error |-> "none"]
Rejected(e)  == [status |-> "rejected",  value |-> NoValue, error |-> e]

\* a collaborator request and its answer
InFlight      == [st |-> "pending", val |-> NoValue, err |-> "none"]
Answered(v)   == [st |-> "ok",      val |-> v,       err |-> "none"]
Failed(e)     == [st |-> "err",     val |-> NoValue, err |-> e]
Request(runner, target, method, args) ==
    [runner |-> runner, target |-> target, method |-> method, args |-> args,
     resp |-> InFlight]

\* a call slot before the call is made
NoCall == [op |-> "none", args |-> <<>>, pc |-> "idle", trace |-> <<>>,
           balance |-> <<>>, decimals |-> -1, outcome |-> Unsettled]

---------------------------------------------------------------------------
(* Construction *)

\* the constructor testing `privateKey != null` instead of its truthiness: the
\* empty string is handed to new ethers.Wallet, which throws
Constructor_NullCheckOnly(privateKey, providerUrl, entropy) ==
    LET provider == [url |-> providerUrl] IN
    IF privateKey \notin {Null, Undefined}
    THEN IF privateKey \in ValidKeys
         THEN [status |-> "constructed",
               provider |-> provider,
               wallet |-> [address |-> AddressOf(privateKey), privateKey |-> privateKey,
                           mnemonic |-> NoMnemonic, provider |-> provider],
               log |-> [generated |-> FALSE, address |-> AddressOf(privateKey),
                        privateKey |-> privateKey, mnemonic |-> NoMnemonic]]
         ELSE [status |-> "threw",
               provider |-> provider,
               wallet |-> [address |-> AddressOf(Null), privateKey |-> Null,
                           mnemonic |-> NoMnemonic, provider |-> provider],
               log |-> [generated |-> FALSE, address |-> AddressOf(Null),
                        privateKey |-> Null, mnemonic |-> NoMnemonic]]
    ELSE [status |-> "constructed",
          provider |-> provider,
          wallet |-> [address |-> AddressOf(entropy), privateKey |-> entropy,
                      mnemonic |-> MnemonicOf(entropy), provider |-> provider],
          log |-> [generated |-> TRUE, address |-> AddressOf(entropy),
                   privateKey |-> entropy, mnemonic |-> MnemonicOf(entropy)]]

\* constructor(privateKey, providerUrl): `entropy` is the key createRandom()
\* draws when it is called.  new ethers.Wallet(key, provider) throws on a
\* malformed key, and the constructor with it.
Constructor(privateKey, providerUrl, entropy) ==
    LET provider == [url |-> providerUrl] IN
    IF Truthy(privateKey)
    THEN IF privateKey \in ValidKeys
         THEN [status |-> "constructed",
               provider |-> provider,
               wallet |-> [address |-> AddressOf(privateKey), privateKey |-> privateKey,
                           mnemonic |-> NoMnemonic, provider |-> provider],
               log |-> [generated |-> FALSE, address |-> AddressOf(privateKey),
                        privateKey |-> privateKey, mnemonic |-> NoMnemonic]]
         ELSE [status |-> "threw",
               provider |-> provider,
               wallet |-> [address |-> AddressOf(Null), privateKey |-> Null,
                           mnemonic |-> NoMnemonic, provider |-> provider],
               log |-> [generated |-> FALSE, address |-> AddressOf(Null),
                        privateKey |-> Null, mnemonic |-> NoMnemonic]]
    ELSE [status |-> "constructed",
          provider |-> provider,
          wallet |-> [address |-> AddressOf(entropy), privateKey |-> entropy,
                      mnemonic |-> MnemonicOf(entropy), provider |-> provider],
          log |-> [generated |-> TRUE, address |-> AddressOf(entropy),
                   privateKey |-> entropy, mnemonic |-> MnemonicOf(entropy)]]

NotRun == Throw("not run")

\* no conversion under test
UnitsOff == [stage |-> "off", amount |-> <<>>, decimals |-> 0,
             smallest |-> NotRun, display |-> NotRun, back |-> NotRun]

\* the state after `new KAIAWallet(k, u)`, for the arguments and entropy given
Constructed(keys, urls, entropies) ==
    /\ \E k \in keys, u \in urls, e \in entropies :
          /\ ctor = [privateKey |-> k, providerUrl |-> u, entropy |-> e]
          /\ facade = Constructor(k, u, e)
    /\ calls = [c \in Calls |-> NoCall]
    /\ submitted = <<>>
    /\ mined = {}

\* the facade under load: a generated wallet, a loaded one, a failed construction
Init ==
    /\ Constructed({Null, "key1", "malformed"}, {"rpcA"}, {"rnd1"})
    /\ units = UnitsOff

\* construction alone: every kind of key argument, URL and entropy
InitCtor ==
    /\ Constructed(PrivateKeyArgs, ProviderUrls, RandomKeys)
    /\ units = UnitsOff

---------------------------------------------------------------------------
(* Helpers of the call steps *)

Ready == facade.status = "constructed"

\* slots are taken in order: the k-th call made on the instance is slot k
CanStart(c) ==
    /\ Ready
    /\ calls[c].pc = "idle"
    /\ \A k \in Calls : k < c => calls[k].pc # "idle"

\* the request the call is waiting on
Pending(c) == calls[c].trace[Len(calls[c].trace)]

\* the trace with the request in flight answered
Answer(c, resp) ==
    [calls[c].trace EXCEPT ![Len(calls[c].trace)].resp = resp]

Frame(c, rec) == calls' = [calls EXCEPT ![c] = rec]

\* the next transaction hash the network hands out
NextHash == Len(submitted) + 1


\* what a collaborator may answer to a request: one of `values`, or a failure
Answers(values) == {Answered(v) : v \in values} \cup {Failed(e) : e \in Errors}

\* the call has returned (its promise is settled)
Settle(c, resp, outcome) ==
    Frame(c, [calls[c] EXCEPT !.pc = "done", !.trace = Answer(c, resp),
                              !.outcome = outcome])

\* the transaction the signer broadcasts for a request
TxOf(h, req) ==
    [hash |-> h, from |-> facade.wallet.address, target |-> req.target,
     method |-> req.method, args |-> req.args]

---------------------------------------------------------------------------
(* The methods *)

\* getAddress(): return this.wallet.address
GetAddress(c) ==
    /\ CanStart(c)
    /\ Frame(c, [NoCall EXCEPT !.op = "getAddress", !.pc = "done",
                    !.outcome = Fulfilled(TextValue(facade.wallet.address))])
    /\ UNCHANGED <<ctor, facade, submitted, mined, units>>

\* getPrivateKey(): return this.wallet.privateKey
GetPrivateKey(c) ==
    /\ CanStart(c)
    /\ Frame(c, [NoCall EXCEPT !.op = "getPrivateKey", !.pc = "done",
                    !.outcome = Fulfilled(TextValue(facade.wallet.privateKey))])
    /\ UNCHANGED <<ctor, facade, submitted, mined, units>>

\* getBalance(), up to its await: this.provider.getBalance(this.wallet.address)
GetBalanceCall(c) ==
    /\ CanStart(c)
    /\ Frame(c, [NoCall EXCEPT !.op = "getBalance", !.pc = "await getBalance",
                    !.trace = <<Request("provider", "provider", "getBalance",
                                        <<facade.wallet.address>>)>>])
    /\ UNCHANGED <<ctor, facade, submitted, mined, units>>

\* getBalance failing over: on a failed request the facade rebinds itself to a
\* fallback endpoint before rejecting
GetBalanceResume_FailsOver(c) ==
    /\ calls[c].pc = "await getBalance"
    /\ \E resp \in Answers({BigValue(b) : b \in BalanceAnswers}) :
          IF resp.st = "ok"
          THEN /\ LET text == formatEther(resp.val.digits) IN
                  Settle(c, resp, IF text.ok THEN Fulfilled(StrValue(text.val))
                                             ELSE Rejected(text.err))
               /\ UNCHANGED facade
          ELSE /\ Settle(c, resp, Rejected(resp.err))
               /\ facade' = [facade EXCEPT !.provider = [url |-> "fallback"],
                                           !.wallet.provider = [url |-> "fallback"]]
    /\ UNCHANGED <<ctor, submitted, mined, units>>

\* getBalance(), from its await: return ethers.formatEther(balance)
GetBalanceResume(c) ==
    /\ calls[c].pc = "await getBalance"
    /\ \E resp \in Answers({BigValue(b) : b \in BalanceAnswers}) :
          IF resp.st = "ok"
          THEN LET text == formatEther(resp.val.digits) IN
               Settle(c, resp, IF text.ok THEN Fulfilled(StrValue(text.val))
                                          ELSE Rejected(text.err))
          ELSE Settle(c, resp, Rejected(resp.err))
    /\ UNCHANGED <<ctor, facade, submitted, mined, units>>

\* sendTransaction(to, amountInEther), up to its await: parseEther throws inside
\* the async function (the promise is rejected, nothing is sent), or
\* this.wallet.sendTransaction({to, value}) is requested
SendTransactionCall(c, to, amountInEther) ==
    /\ CanStart(c)
    /\ LET value == parseEther(amountInEther)
           call  == [NoCall EXCEPT !.op = "sendTransaction",
                                   !.args = <<to, amountInEther>>]
       IN  IF value.ok
           THEN Frame(c, [call EXCEPT !.pc = "await sendTransaction",
                     !.trace = <<Request("wallet", to, "sendTransaction",
                                         <<to, value.val>>)>>])
           ELSE Frame(c, [call EXCEPT !.pc = "done",
                                      !.outcome = Rejected(value.err)])
    /\ UNCHANGED <<ctor, facade, submitted, mined, units>>

\* sendTransaction awaiting transaction.wait() before it returns
SendTransactionResume_AwaitsReceipt(c) ==
    /\ calls[c].pc = "await sendTransaction"
    /\ \/ /\ Len(submitted) < MaxTx
          /\ submitted' = Append(submitted, TxOf(NextHash, Pending(c)))
          /\ Frame(c, [calls[c] EXCEPT !.pc = "await wait",
                          !.trace = Answer(c, Answered(TxValue(NextHash)))])
       \/ /\ \E e \in Errors : Settle(c, Failed(e), Rejected(e))
          /\ UNCHANGED submitted
    /\ UNCHANGED <<ctor, facade, mined, units>>

\* sendTransaction, from its await: return transaction.  The network accepts the
\* transaction into its pending pool, or the request fails.
SendTransactionResume(c) ==
    /\ calls[c].pc = "await sendTransaction"
    /\ \/ /\ Len(submitted) < MaxTx
          /\ submitted' = Append(submitted, TxOf(NextHash, Pending(c)))
          /\ Settle(c, Answered(TxValue(NextHash)), Fulfilled(TxValue(NextHash)))
       \/ /\ \E e \in Errors : Settle(c, Failed(e), Rejected(e))
          /\ UNCHANGED submitted
    /\ UNCHANGED <<ctor, facade, mined, units>>

\* getTransactionReceipt(txHash), up to its await
GetTransactionReceiptCall(c, txHash) ==
    /\ CanStart(c)
    /\ Frame(c, [NoCall EXCEPT !.op = "getTransactionReceipt", !.args = <<txHash>>,
                    !.pc = "await getTransactionReceipt",
                    !.trace = <<Request("provider", "provider",
                                        "getTransactionReceipt", <<txHash>>)>>])
    /\ UNCHANGED <<ctor, facade, submitted, mined, units>>

\* what the provider answers for a hash: the receipt once mined, null otherwise
ProviderReceipt(txHash) ==
    IF txHash \in mined THEN RcptValue(txHash) ELSE NullValue

\* getTransactionReceipt treating a missing receipt as an error
GetTransactionReceiptResume_ThrowsOnNull(c) ==
    /\ calls[c].pc = "await getTransactionReceipt"
    /\ \E resp \in Answers({ProviderReceipt(calls[c].args[1])}) :
          IF resp.st = "ok"
          THEN Settle(c, resp, IF resp.val = NullValue
                                  THEN Rejected("receipt not found")
                                  ELSE Fulfilled(resp.val))
          ELSE Settle(c, resp, Rejected(resp.err))
    /\ UNCHANGED <<ctor, facade, submitted, mined, units>>

\* getTransactionReceipt, from its await: return what the provider answered
GetTransactionReceiptResume(c) ==
    /\ calls[c].pc = "await getTransactionReceipt"
    /\ \E resp \in Answers({ProviderReceipt(calls[c].args[1])}) :
          IF resp.st = "ok"
          THEN Settle(c, resp, Fulfilled(resp.val))
          ELSE Settle(c, resp, Rejected(resp.err))
    /\ UNCHANGED <<ctor, facade, submitted, mined, units>>

\* getTokenBalance(tokenAddress), up to its first await: a contract handle on
\* the provider, and contract.balanceOf(this.wallet.address)
GetTokenBalanceCall(c, tokenAddress) ==
    /\ CanStart(c)
    /\ Frame(c, [NoCall EXCEPT !.op = "getTokenBalance", !.args = <<tokenAddress>>,
                    !.pc = "await balanceOf",
                    !.trace = <<Request("provider", tokenAddress, "balanceOf",
                                        <<facade.wallet.address>>)>>])
    /\ UNCHANGED <<ctor, facade, submitted, mined, units>>

\* the token of the contract handle made last on the instance
LastContractToken(c) ==
    LET made == {k \in Calls : calls[k].op \in {"getTokenBalance", "sendToken"}}
    IN  IF made = {} THEN calls[c].args[1] ELSE calls[SetMax(made)].args[1]

\* getTokenBalance keeping its contract handle in a field of the instance
\* (this.contract): after the await the handle may be another call's
GetTokenBalanceBalance_SharedContract(c) ==
    /\ calls[c].pc = "await balanceOf"
    /\ \E resp \in Answers({BigValue(b) : b \in BalanceAnswers}) :
          IF resp.st = "ok"
          THEN Frame(c, [calls[c] EXCEPT !.pc = "await decimals",
                    !.balance = resp.val.digits,
                    !.trace = Append(Answer(c, resp),
                                     Request("provider", LastContractToken(c),
                                             "decimals", <<>>))])
          ELSE Settle(c, resp, Rejected(resp.err))
    /\ UNCHANGED <<ctor, facade, submitted, mined, units>>

\* the decimals other calls have been answered for a token
KnownDecimals(c, token) ==
    {calls[k].trace[i].resp.val.n :
        <<k, i>> \in {ki \in (Calls \ {c}) \X (1..2) :
                        /\ ki[2] <= Len(calls[ki[1]].trace)
                        /\ calls[ki[1]].trace[ki[2]].method = "decimals"
                        /\ calls[ki[1]].trace[ki[2]].target = token
                        /\ calls[ki[1]].trace[ki[2]].resp.st = "ok"}}

\* getTokenBalance caching the decimals per token: a later call formats with
\* the cached value and makes no decimals() request
GetTokenBalanceBalance_CachesDecimals(c) ==
    /\ calls[c].pc = "await balanceOf"
    /\ \E resp \in Answers({BigValue(b) : b \in BalanceAnswers}) :
          IF resp.st = "ok"
          THEN IF KnownDecimals(c, calls[c].args[1]) = {}
               THEN Frame(c, [calls[c] EXCEPT !.pc = "await decimals",
                         !.balance = resp.val.digits,
                         !.trace = Append(Answer(c, resp),
                                          Request("provider", calls[c].args[1],
                                                  "decimals", <<>>))])
               ELSE LET d == SetMin(KnownDecimals(c, calls[c].args[1]))
                        text == formatUnits(resp.val.digits, d)
                    IN  Settle(c, resp, IF text.ok THEN Fulfilled(StrValue(text.val))
                                                   ELSE Rejected(text.err))
          ELSE Settle(c, resp, Rejected(resp.err))
    /\ UNCHANGED <<ctor, facade, submitted, mined, units>>

\* getTokenBalance, between its awaits: const balance = (answer), then
\* contract.decimals() is requested
GetTokenBalanceBalance(c) ==
    /\ calls[c].pc = "await balanceOf"
    /\ \E resp \in Answers({BigValue(b) : b \in BalanceAnswers}) :
          IF resp.st = "ok"
          THEN Frame(c, [calls[c] EXCEPT !.pc = "await decimals",
                    !.balance = resp.val.digits,
                    !.trace = Append(Answer(c, resp),
                                     Request("provider", calls[c].args[1],
                                             "decimals", <<>>))])
          ELSE Settle(c, resp, Rejected(resp.err))
    /\ UNCHANGED <<ctor, facade, submitted, mined, units>>

\* getTokenBalance recovering from a failed decimals(): it formats with 18
GetTokenBalanceDecimals_FallsBackTo18(c) ==
    /\ calls[c].pc = "await decimals"
    /\ calls[c].op = "getTokenBalance"
    /\ \E resp \in Answers({IntValue(d) : d \in DecimalsAnswers}) :
          LET d == IF resp.st = "ok" THEN resp.val.n ELSE EtherDecimals
              text == formatUnits(calls[c].balance, d)
          IN  Frame(c, [calls[c] EXCEPT !.pc = "done",
                    !.decimals = d,
                    !.trace = Answer(c, resp),
                    !.outcome = IF text.ok THEN Fulfilled(StrValue(text.val))
                                           ELSE Rejected(text.err)])
    /\ UNCHANGED <<ctor, facade, submitted, mined, units>>

\* getTokenBalance, from its second await: const decimals = (answer);
\* return ethers.formatUnits(balance, decimals)
GetTokenBalanceDecimals(c) ==
    /\ calls[c].pc = "await decimals"
    /\ calls[c].op = "getTokenBalance"
    /\ \E resp \in Answers({IntValue(d) : d \in DecimalsAnswers}) :
          IF resp.st = "ok"
          THEN LET text == formatUnits(calls[c].balance, resp.val.n) IN
               Frame(c, [calls[c] EXCEPT !.pc = "done",
                    !.decimals = resp.val.n,
                    !.trace = Answer(c, resp),
                    !.outcome = IF text.ok THEN Fulfilled(StrValue(text.val))
                                           ELSE Rejected(text.err)])
          ELSE Settle(c, resp, Rejected(resp.err))
    /\ UNCHANGED <<ctor, facade, submitted, mined, units>>

\* sendToken(tokenAddress, to, amount), up to its first await: a contract
\* handle on the wallet, and contract.decimals()
SendTokenCall(c, tokenAddress, to, amount) ==
    /\ CanStart(c)
    /\ Frame(c, [NoCall EXCEPT !.op = "sendToken",
                    !.args = <<tokenAddress, to, amount>>,
                    !.pc = "await decimals",
                    !.trace = <<Request("wallet", tokenAddress, "decimals", <<>>)>>])
    /\ UNCHANGED <<ctor, facade, submitted, mined, units>>

\* sendToken scaling the amount like the native coin (parseEther) instead of by
\* the decimals the token answered
SendTokenDecimals_ScalesBy18(c) ==
    /\ calls[c].pc = "await decimals"
    /\ calls[c].op = "sendToken"
    /\ \E resp \in Answers({IntValue(d) : d \in DecimalsAnswers}) :
          IF resp.st = "ok"
          THEN LET parsed == parseEther(calls[c].args[3]) IN
               IF parsed.ok
               THEN Frame(c, [calls[c] EXCEPT !.pc = "await transfer",
                         !.decimals = resp.val.n,
                         !.trace = Append(Answer(c, resp),
                                          Request("wallet", calls[c].args[1], "transfer",
                                                  <<calls[c].args[2], parsed.val>>))])
               ELSE Frame(c, [calls[c] EXCEPT !.pc = "done",
                         !.decimals = resp.val.n,
                         !.trace = Answer(c, resp),
                         !.outcome = Rejected(parsed.err)])
          ELSE Settle(c, resp, Rejected(resp.err))
    /\ UNCHANGED <<ctor, facade, submitted, mined, units>>

\* sendToken, between its awaits: const decimals = (answer); parseUnits(amount,
\* decimals) throws, or contract.transfer(to, parsed) is requested
SendTokenDecimals(c) ==
    /\ calls[c].pc = "await decimals"
    /\ calls[c].op = "sendToken"
    /\ \E resp \in Answers({IntValue(d) : d \in DecimalsAnswers}) :
          IF resp.st = "ok"
          THEN LET parsed == parseUnits(calls[c].args[3], resp.val.n) IN
               IF parsed.ok
               THEN Frame(c, [calls[c] EXCEPT !.pc = "await transfer",
                         !.decimals = resp.val.n,
                         !.trace = Append(Answer(c, resp),
                                          Request("wallet", calls[c].args[1], "transfer",
                                                  <<calls[c].args[2], parsed.val>>))])
               ELSE Frame(c, [calls[c] EXCEPT !.pc = "done",
                         !.decimals = resp.val.n,
                         !.trace = Answer(c, resp),
                         !.outcome = Rejected(parsed.err)])
          ELSE Settle(c, resp, Rejected(resp.err))
    /\ UNCHANGED <<ctor, facade, submitted, mined, units>>

\* sendToken sending the transfer a second time (a retry on a slow answer)
SendTokenTransfer_SubmitsTwice(c) ==
    /\ calls[c].pc = "await transfer"
    /\ \/ /\ Len(submitted) < MaxTx
          /\ submitted' = submitted \o <<TxOf(NextHash, Pending(c)),
                                         TxOf(NextHash + 1, Pending(c))>>
          /\ Settle(c, Answered(TxValue(NextHash)), Fulfilled(TxValue(NextHash)))
       \/ /\ \E e \in Errors : Settle(c, Failed(e), Rejected(e))
          /\ UNCHANGED submitted
    /\ UNCHANGED <<ctor, facade, mined, units>>

\* sendToken, from its second await: return tx.  The network accepts the
\* transfer into its pending pool, or the request fails.
SendTokenTransfer(c) ==
    /\ calls[c].pc = "await transfer"
    /\ \/ /\ Len(submitted) < MaxTx
          /\ submitted' = Append(submitted, TxOf(NextHash, Pending(c)))
          /\ Settle(c, Answered(TxValue(NextHash)), Fulfilled(TxValue(NextHash)))
       \/ /\ \E e \in Errors : Settle(c, Failed(e), Rejected(e))
          /\ UNCHANGED submitted
    /\ UNCHANGED <<ctor, facade, mined, units>>

---------------------------------------------------------------------------
(* The network *)

\* a pending transaction is mined: from now on it has a receipt
Mine(h) ==
    /\ h \in 1..Len(submitted)
    /\ h \notin mined
    /\ mined' = mined \cup {h}
    /\ UNCHANGED <<ctor, facade, calls, submitted, units>>

---------------------------------------------------------------------------
(* The facade's specification *)

Next ==
    \/ \E c \in Calls : GetAddress(c)
    \/ \E c \in Calls : GetPrivateKey(c)
    \/ \E c \in Calls : GetBalanceCall(c)
    \/ \E c \in Calls : GetBalanceResume(c)
    \/ \E c \in Calls, a \in SendTransactionArgs : SendTransactionCall(c, a[1], a[2])
    \/ \E c \in Calls : SendTransactionResume(c)
    \/ \E c \in Calls, h \in HashArgs : GetTransactionReceiptCall(c, h)
    \/ \E c \in Calls : GetTransactionReceiptResume(c)
    \/ \E c \in Calls, t \in Tokens : GetTokenBalanceCall(c, t)
    \/ \E c \in Calls : GetTokenBalanceBalance(c)
    \/ \E c \in Calls : GetTokenBalanceDecimals(c)
    \/ \E c \in Calls, a \in SendTokenArgs : SendTokenCall(c, a[1], a[2], a[3])
    \/ \E c \in Calls : SendTokenDecimals(c)
    \/ \E c \in Calls : SendTokenTransfer(c)
    \/ \E h \in 1..MaxTx : Mine(h)

Spec == Init /\ [][Next]_vars

\* construction and the two accessors, over every kind of constructor argument
NextCtor ==
    \/ \E c \in Calls : GetAddress(c)
    \/ \E c \in Calls : GetPrivateKey(c)

SpecCtor == InitCtor /\ [][NextCtor]_vars

---------------------------------------------------------------------------
(* The unit conversions on their own *)

\* the characters amount strings are drawn from
UnitAlphabet == {"-", ".", "0", "1", "5", "x"}
AmountStrings == UNION {[1..n -> UnitAlphabet] : n \in 0..MaxLen}
\* the decimal counts tried: the small ones, the coin's 18, the ones around the
\* limit of the fixed-point format, and the largest uint8
UnitDecimals ==
    (0..MaxLen) \cup {EtherDecimals, MaxFixedDecimals, MaxFixedDecimals + 1, Uint8Max}
\* integers in the smallest unit, as a provider answers them (uint256)
SmallestValues ==
    {BigIntOf(FALSE, ds) : ds \in UNION {[1..n -> {"0", "1", "5"}] : n \in 1..MaxLen}}

InitUnits ==
    /\ Constructed({"key1"}, {"rpcA"}, {"rnd1"})
    /\ \E d \in UnitDecimals :
          \/ \E s \in AmountStrings :
                units = [stage |-> "amount", amount |-> s, decimals |-> d,
                         smallest |-> NotRun, display |-> NotRun, back |-> NotRun]
          \/ \E v \in SmallestValues :
                units = [stage |-> "smallest", amount |-> <<>>, decimals |-> d,
                         smallest |-> Ok(v), display |-> NotRun, back |-> NotRun]

\* display amount -> smallest unit, as sendTransaction (d = 18) and sendToken do
ToSmallestUnit ==
    /\ units.stage = "amount"
    /\ units' = [units EXCEPT !.stage = "smallest",
                              !.smallest = parseUnits(units.amount, units.decimals)]
    /\ UNCHANGED <<ctor, facade, calls, submitted, mined>>

\* smallest unit -> display amount, as getBalance (d = 18) and getTokenBalance do
ToDisplayUnit ==
    /\ units.stage = "smallest"
    /\ units.smallest.ok
    /\ units' = [units EXCEPT !.stage = "display",
                              !.display = formatUnits(units.smallest.val, units.decimals)]
    /\ UNCHANGED <<ctor, facade, calls, submitted, mined>>

\* the displayed amount converted to the smallest unit again
BackToSmallestUnit ==
    /\ units.stage = "display"
    /\ units.display.ok
    /\ units' = [units EXCEPT !.stage = "back",
                              !.back = parseUnits(units.display.val, units.decimals)]
    /\ UNCHANGED <<ctor, facade, calls, submitted, mined>>

NextUnits == ToSmallestUnit \/ ToDisplayUnit \/ BackToSmallestUnit

SpecUnits == InitUnits /\ [][NextUnits]_vars

---------------------------------------------------------------------------
(* Vocabulary of the properties *)

IsDone(c)      == calls[c].pc = "done"
IsFulfilled(c) == calls[c].outcome.status = "fulfilled"
IsRejected(c)  == calls[c].outcome.status = "rejected"
SendOps        == {"sendTransaction", "sendToken"}

\* the handle bound at construction
Bound == Constructor(ctor.privateKey, ctor.providerUrl, ctor.entropy)

\* the parts of a decimal string: sign, digits before the point, digits after it
IsNumeric(s) ==
    LET neg  == Len(s) > 0 /\ s[1] = "-"
        body == IF neg THEN Tail(s) ELSE s
    IN  /\ \A i \in 1..Len(body) : body[i] \in Digits \cup {"."}
        /\ Cardinality({i \in 1..Len(body) : body[i] = "."}) <= 1
        /\ \E i \in 1..Len(body) : body[i] \in Digits
Negative(s) == Len(s) > 0 /\ s[1] = "-"
Unsigned(s) == IF Negative(s) THEN Tail(s) ELSE s
HasPoint(s) == \E i \in 1..Len(s) : s[i] = "."
PointAt(s)  == IF HasPoint(s) THEN SetMin({i \in 1..Len(s) : s[i] = "."}) ELSE Len(s) + 1
WholePart(s) == SubSeq(Unsigned(s), 1, PointAt(Unsigned(s)) - 1)
FracPart(s)  == SubSeq(Unsigned(s), PointAt(Unsigned(s)) + 1, Len(Unsigned(s)))

RECURSIVE DropTrailingZeros(_)
DropTrailingZeros(ds) ==
    IF ds # <<>> /\ ds[Len(ds)] = "0"
    THEN DropTrailingZeros(SubSeq(ds, 1, Len(ds) - 1)) ELSE ds

RECURSIVE DropLeadingZeros(_)
DropLeadingZeros(ds) ==
    IF ds # <<>> /\ ds[1] = "0" THEN DropLeadingZeros(Tail(ds)) ELSE ds

\* fractional digits that carry value
SignificantFraction(s) == Len(DropTrailingZeros(FracPart(s)))

\* trailing-zero normalization: the fraction without its trailing zeros, and
\* no point when nothing is left of it ("1.50" -> "1.5", "1.0" -> "1")
TrailingZeroNormal(s) ==
    LET sign == IF Negative(s) THEN <<"-">> ELSE <<>>
        frac == DropTrailingZeros(FracPart(s))
    IN  sign \o WholePart(s) \o (IF frac = <<>> THEN <<>> ELSE <<".">> \o frac)

\* the canonical spelling of the number a string denotes: trailing-zero
\* normalization, and also no superfluous leading zero, "0" for a missing
\* whole part, and no sign on zero
NumberNormal(s) ==
    LET whole == DropLeadingZeros(WholePart(s))
        frac  == DropTrailingZeros(FracPart(s))
        sign  == IF Negative(s) /\ (whole # <<>> \/ frac # <<>>) THEN <<"-">> ELSE <<>>
    IN  sign \o (IF whole = <<>> THEN <<"0">> ELSE whole)
             \o (IF frac = <<>> THEN <<>> ELSE <<".">> \o frac)

\* a decimal amount in its usual spelling: digits, an optional fraction after
\* a point, an optional sign; no superfluous leading zero, no negative zero
IsPlainAmount(s) ==
    /\ IsNumeric(s)
    /\ WholePart(s) # <<>>
    /\ Len(WholePart(s)) > 1 => WholePart(s)[1] # "0"
    /\ HasPoint(s) => FracPart(s) # <<>>
    /\ Negative(s) => \E i \in 1..Len(s) : s[i] \in Digits \ {"0"}

---------------------------------------------------------------------------
(* C7: the unit conversions round-trip *)

\* C7 as stated: for every decimal count d in 0..255 and every display amount,
\* converting to the smallest unit with d decimals and back with the same d
\* reproduces the amount up to trailing-zero normalization.  Read here in its
\* most favourable sense, for plainly spelled amounts only.
C7_RoundTripForEveryAmountAndDecimals ==
    (units.stage \in {"smallest", "display", "back"} /\ units.amount # <<>>
        /\ IsPlainAmount(units.amount))
    => /\ units.smallest.ok
       /\ units.stage \in {"display", "back"} =>
             /\ units.display.ok
             /\ TrailingZeroNormal(units.display.val) = TrailingZeroNormal(units.amount)

\* C7 amended: the conversion to the smallest unit succeeds exactly for numeric
\* strings with at most d significant fractional digits and d <= 80; then the
\* conversion back succeeds and spells the same number: equal to the original
\* up to trailing-zero normalization when the original is plainly spelled, and
\* up to zero normalization (leading zeros, a missing whole or fractional part,
\* the sign of zero) otherwise.  Formatting an integer succeeds exactly for
\* d <= 80, and converting the text back gives the integer again.
C7_RoundTripWhereConversionIsDefined ==
    /\ (units.stage \in {"smallest", "display", "back"} /\ units.amount # <<>>) =>
          units.smallest.ok <=>
             /\ IsNumeric(units.amount)
             /\ units.decimals <= MaxFixedDecimals
             /\ SignificantFraction(units.amount) <= units.decimals
    /\ units.stage \in {"display", "back"} =>
          /\ units.display.ok <=> units.decimals <= MaxFixedDecimals
          /\ (units.display.ok /\ units.amount # <<>>) =>
                /\ NumberNormal(units.display.val) = NumberNormal(units.amount)
                /\ IsPlainAmount(units.amount) =>
                      TrailingZeroNormal(units.display.val)
                         = TrailingZeroNormal(units.amount)
    /\ units.stage = "back" => units.back = units.smallest

\* C7 witness: "1.5" went to 150 with two decimals and came back as "1.5"
C7_Witness ==
    /\ units.stage = "back"
    /\ units.amount = <<"1", ".", "5">>
    /\ units.decimals = 2
    /\ units.smallest = Ok(<<"1", "5", "0">>)
    /\ units.display = Ok(<<"1", ".", "5">>)

---------------------------------------------------------------------------
(* C1: the wallet handle is bound once *)

\* C1: after construction the wallet handle never changes: whatever calls were
\* made and however they ended, this.wallet and this.provider are the ones
\* bound at construction, and every getAddress() and getPrivateKey() returned
\* the address and the private key bound at construction.
C1_HandleBoundOnce ==
    /\ facade = Bound
    /\ facade.wallet.provider = facade.provider
    /\ \A c \in Calls :
          /\ calls[c].op = "getAddress" =>
                calls[c].outcome = Fulfilled(TextValue(Bound.wallet.address))
          /\ calls[c].op = "getPrivateKey" =>
                calls[c].outcome = Fulfilled(TextValue(Bound.wallet.privateKey))

\* C1 witness: a sendToken call has failed on the network, and the accessor
\* called after it was made returned the key given to the constructor
C1_Witness ==
    /\ calls[1].op = "sendToken"
    /\ calls[1].outcome = Rejected("NetworkError")
    /\ calls[2].op = "getPrivateKey"
    /\ calls[2].outcome = Fulfilled(TextValue(ctor.privateKey))

---------------------------------------------------------------------------
(* C2: construction *)

\* C2: the private-key argument alone chooses the identity: a present,
\* non-empty key is the key of the bound identity and nothing is generated; a
\* null, undefined or empty key always yields a generated identity with a
\* mnemonic; either way the identity is bound to the provider of the given URL.
C2_KeyArgumentChoosesIdentity ==
    /\ (Truthy(ctor.privateKey) /\ Ready) =>
          /\ facade.wallet.privateKey = ctor.privateKey
          /\ facade.wallet.address = AddressOf(ctor.privateKey)
          /\ ~facade.wallet.mnemonic.present
          /\ ~facade.log.generated
    /\ ~Truthy(ctor.privateKey) =>
          /\ Ready
          /\ facade.wallet.privateKey = ctor.entropy
          /\ facade.wallet.address = AddressOf(ctor.entropy)
          /\ facade.wallet.mnemonic = MnemonicOf(ctor.entropy)
          /\ facade.log.generated
    /\ facade.provider.url = ctor.providerUrl
    /\ facade.wallet.provider = facade.provider

\* C2 witness: constructed with the empty string, the facade hands out the
\* generated key
C2_Witness ==
    /\ ctor.privateKey = ""
    /\ facade.log.generated
    /\ \E c \in Calls : /\ calls[c].op = "getPrivateKey"
                        /\ calls[c].outcome = Fulfilled(TextValue(ctor.entropy))

---------------------------------------------------------------------------
(* C3: failures propagate *)

\* C3: no recovery, no retry, no partial result: a call issues no request
\* twice; a failed request is the last one the call makes, and the call is
\* then rejected with that very failure and without a value.  In particular a
\* getTokenBalance whose decimals() failed after balanceOf succeeded is
\* rejected.
C3_FailuresPropagate ==
    \A c \in Calls :
       LET t == calls[c].trace IN
       /\ \A i, j \in 1..Len(t) : t[i].method = t[j].method => i = j
       /\ \A i \in 1..Len(t) :
             t[i].resp.st = "err" =>
                /\ i = Len(t)
                /\ IsDone(c)
                /\ calls[c].outcome = Rejected(t[i].resp.err)
       /\ IsRejected(c) => calls[c].outcome.value = NoValue

\* C3 witness: balanceOf answered, decimals() failed, the call was rejected
C3_Witness ==
    \E c \in Calls :
       /\ calls[c].op = "getTokenBalance"
       /\ Len(calls[c].trace) = 2
       /\ calls[c].trace[1].resp.st = "ok"
       /\ calls[c].trace[2].resp = Failed("ContractCallError")
       /\ calls[c].outcome = Rejected("ContractCallError")

---------------------------------------------------------------------------
(* C4: sending does not wait for confirmation *)

IsSubmission(req) == req.method \in {"sendTransaction", "transfer"}

\* C4: sendTransaction and sendToken return the handle as soon as the
\* submission is accepted: there is no state in which the submission was
\* accepted and the call has not returned its handle, whether or not the
\* transaction has been mined.
C4_ReturnsOnAcceptance ==
    \A c \in Calls :
       \A i \in 1..Len(calls[c].trace) :
          (IsSubmission(calls[c].trace[i]) /\ calls[c].trace[i].resp.st = "ok") =>
             /\ IsDone(c)
             /\ calls[c].outcome = Fulfilled(calls[c].trace[i].resp.val)
             /\ calls[c].outcome.value.hash \in 1..Len(submitted)

\* C4 witness: both kinds of send have returned and neither transaction is mined
C4_Witness ==
    /\ mined = {}
    /\ \E c, k \in Calls :
          /\ calls[c].op = "sendTransaction" /\ IsFulfilled(c)
          /\ calls[k].op = "sendToken" /\ IsFulfilled(k)

---------------------------------------------------------------------------
(* C5: a missing receipt is a result *)

\* C5: getTransactionReceipt returns what the provider answered, and null for
\* a hash that is unknown or not mined, as a normal result; it is rejected
\* only when the provider request failed, with that failure.
C5_MissingReceiptIsNull ==
    \A c \in Calls :
       (calls[c].op = "getTransactionReceipt" /\ IsDone(c)) =>
          LET r == calls[c].trace[1].resp
              h == calls[c].args[1]
          IN  /\ r.st = "ok" => calls[c].outcome = Fulfilled(r.val)
              /\ (r.st = "ok" /\ h \notin mined) => calls[c].outcome = Fulfilled(NullValue)
              /\ IsRejected(c) => (r.st = "err" /\ calls[c].outcome = Rejected(r.err))

\* C5 witness: null was returned for a transaction that is submitted and not mined
C5_Witness ==
    \E c \in Calls :
       /\ calls[c].op = "getTransactionReceipt"
       /\ calls[c].outcome = Fulfilled(NullValue)
       /\ calls[c].args[1] \in 1..Len(submitted)
       /\ calls[c].args[1] \notin mined

---------------------------------------------------------------------------
(* C6: concurrent calls do not interfere *)

\* the i-th answer a call has received (or "missing" when it made no i-th request)
AnswerAt(t, i) ==
    IF i <= Len(t) THEN t[i].resp ELSE [st |-> "missing", val |-> NoValue, err |-> "none"]

Expect(pc, reqs, outcome) == [pc |-> pc, reqs |-> reqs, outcome |-> outcome]

\* One request: `result` is what the method returns once it is answered.
AloneOneRequest(req, a1, awaiting, result) ==
    CASE a1.st = "pending" -> Expect(awaiting, <<req>>, Unsettled)
      [] a1.st = "err"     -> Expect("done", <<req>>, Rejected(a1.err))
      [] a1.st = "ok"      -> Expect("done", <<req>>, result)
      [] OTHER             -> Expect("never", <<>>, Unsettled)

\* Two requests in sequence: `second` is the request made once the first is
\* answered (or the error thrown instead of making it), `result` what the
\* method returns once the second is answered.
AloneTwoRequests(req1, a1, awaiting1, second, a2, awaiting2, result) ==
    CASE a1.st = "pending" -> Expect(awaiting1, <<req1>>, Unsettled)
      [] a1.st = "err"     -> Expect("done", <<req1>>, Rejected(a1.err))
      [] a1.st = "ok"      ->
            IF ~second.ok THEN Expect("done", <<req1>>, Rejected(second.err))
            ELSE CASE a2.st = "pending" ->
                         Expect(awaiting2, <<req1, second.val>>, Unsettled)
                   [] a2.st = "err"     ->
                         Expect("done", <<req1, second.val>>, Rejected(a2.err))
                   [] a2.st = "ok"      ->
                         Expect("done", <<req1, second.val>>, result)
                   [] OTHER             -> Expect("never", <<>>, Unsettled)
      [] OTHER             -> Expect("never", <<>>, Unsettled)

FromConversion(r) == IF r.ok THEN Fulfilled(StrValue(r.val)) ELSE Rejected(r.err)

\* What a call returns when it runs alone on the facade and its requests get
\* the answers a1, a2: the sequential meaning of each method.
RunAlone(op, args, a1, a2) ==
    LET own == facade.wallet.address
        ok1 == a1.st = "ok"
        ok2 == ok1 /\ a2.st = "ok"
        TransferRequest ==
            LET parsed == parseUnits(args[3], a1.val.n) IN
            IF parsed.ok
            THEN Ok(Request("wallet", args[1], "transfer", <<args[2], parsed.val>>))
            ELSE Throw(parsed.err)
    IN
    CASE op = "getAddress" -> Expect("done", <<>>, Fulfilled(TextValue(own)))
      [] op = "getPrivateKey" ->
            Expect("done", <<>>, Fulfilled(TextValue(facade.wallet.privateKey)))
      [] op = "getBalance" ->
            AloneOneRequest(Request("provider", "provider", "getBalance", <<own>>),
                            a1, "await getBalance",
                            IF ok1 THEN FromConversion(formatEther(a1.val.digits))
                                   ELSE Unsettled)
      [] op = "sendTransaction" ->
            LET value == parseEther(args[2]) IN
            IF ~value.ok THEN Expect("done", <<>>, Rejected(value.err))
            ELSE AloneOneRequest(Request("wallet", args[1], "sendTransaction",
                                         <<args[1], value.val>>),
                                 a1, "await sendTransaction", Fulfilled(a1.val))
      [] op = "getTransactionReceipt" ->
            AloneOneRequest(Request("provider", "provider", "getTransactionReceipt",
                                    <<args[1]>>),
                            a1, "await getTransactionReceipt", Fulfilled(a1.val))
      [] op = "getTokenBalance" ->
            AloneTwoRequests(Request("provider", args[1], "balanceOf", <<own>>),
                             a1, "await balanceOf",
                             Ok(Request("provider", args[1], "decimals", <<>>)),
                             a2, "await decimals",
                             IF ok2 THEN FromConversion(formatUnits(a1.val.digits, a2.val.n))
                                    ELSE Unsettled)
      [] op = "sendToken" ->
            AloneTwoRequests(Request("wallet", args[1], "decimals", <<>>),
                             a1, "await decimals",
                             IF ok1 THEN TransferRequest ELSE Throw("none"),
                             a2, "await transfer", Fulfilled(a2.val))
      [] OTHER -> Expect("idle", <<>>, Unsettled)

\* the requests a call has made, without their answers
RequestsOf(c) ==
    [i \in 1..Len(calls[c].trace) |-> [calls[c].trace[i] EXCEPT !.resp = InFlight]]

\* C6: concurrent calls on one facade are independent: in every interleaving
\* of their await points each call stands exactly where, has made exactly the
\* requests (to its own token, with its own arguments) and has returned
\* exactly the result it would have alone, given the answers its own requests
\* received.
C6_CallsRunAsIfAlone ==
    \A c \in Calls :
       LET t == calls[c].trace
           alone == RunAlone(calls[c].op, calls[c].args, AnswerAt(t, 1), AnswerAt(t, 2))
       IN  /\ calls[c].pc = alone.pc
           /\ RequestsOf(c) = alone.reqs
           /\ calls[c].outcome = alone.outcome

\* C6 witness: a getTokenBalance for tokB ran from start to end, scaling by its
\* own 0 decimals, while an earlier sendToken for tokA was waiting for its
\* transfer to be accepted after scaling by its own 2 decimals
C6_Witness ==
    /\ calls[1].op = "sendToken"
    /\ calls[1].args[1] = "tokA"
    /\ calls[1].pc = "await transfer"
    /\ calls[1].trace[2].args = <<"to1", <<"1", "5", "0">>>>
    /\ calls[2].op = "getTokenBalance"
    /\ calls[2].args[1] = "tokB"
    /\ Len(calls[2].trace) = 2
    /\ calls[2].trace[2].resp = Answered(IntValue(0))
    /\ calls[2].outcome = Fulfilled(StrValue(<<"1", "5", "0">>))

---------------------------------------------------------------------------
(* C8: sendToken asks for the decimals, then transfers once *)

\* C8: in every sendToken call a transfer request is the second request, made
\* after the decimals query of the same call was answered, at most once, on
\* the signer-bound handle of the token, with (to, amount scaled by the
\* decimals answered in this call); there is none when the decimals query or
\* the conversion failed.
C8_TransferAfterDecimals ==
    \A c \in Calls :
       calls[c].op = "sendToken" =>
          LET t == calls[c].trace
              token == calls[c].args[1]
              to == calls[c].args[2]
              amount == calls[c].args[3]
          IN  /\ Len(t) >= 1
              /\ t[1].method = "decimals"
              /\ \A i \in 1..Len(t) :
                    t[i].method = "transfer" =>
                       /\ i = 2
                       /\ t[1].resp.st = "ok"
                       /\ parseUnits(amount, t[1].resp.val.n).ok
                       /\ t[i].args = <<to, parseUnits(amount, t[1].resp.val.n).val>>
                       /\ t[i].runner = "wallet"
                       /\ t[i].target = token
              /\ Cardinality({i \in 1..Len(t) : t[i].method = "transfer"}) <= 1
              /\ (t[1].resp.st = "ok" /\ parseUnits(amount, t[1].resp.val.n).ok)
                    => Len(t) = 2 /\ t[2].method = "transfer"

\* C8 witness: one call transferred 1.5 as 150 after decimals() answered 2,
\* another made no transfer because 1.5 cannot be scaled by 0 decimals
C8_Witness ==
    /\ calls[1].op = "sendToken"
    /\ calls[1].trace[1].resp = Answered(IntValue(2))
    /\ Len(calls[1].trace) = 2
    /\ calls[1].trace[2].args = <<"to1", <<"1", "5", "0">>>>
    /\ IsFulfilled(1)
    /\ calls[2].op = "sendToken"
    /\ calls[2].trace[1].resp = Answered(IntValue(0))
    /\ Len(calls[2].trace) = 1
    /\ calls[2].outcome = Rejected("NUMERIC_FAULT: too many decimals for format")

---------------------------------------------------------------------------
(* C9: getTokenBalance makes two round trips, every time *)

\* C9: a getTokenBalance call never has its decimals() request out before its
\* balanceOf request was answered, and a call that returned a balance made
\* exactly two provider requests, balanceOf(own address) then decimals(), and
\* formatted the balance answered with the decimals answered in this very
\* call: no decimals value is carried over from another call.
C9_BalanceThenDecimalsEveryCall ==
    \A c \in Calls :
       calls[c].op = "getTokenBalance" =>
          LET t == calls[c].trace
              token == calls[c].args[1]
          IN  /\ Len(t) >= 1
              /\ t[1] = [Request("provider", token, "balanceOf",
                                 <<facade.wallet.address>>) EXCEPT !.resp = t[1].resp]
              /\ Len(t) >= 2 =>
                    /\ t[1].resp.st = "ok"
                    /\ t[2] = [Request("provider", token, "decimals", <<>>)
                                  EXCEPT !.resp = t[2].resp]
              /\ IsFulfilled(c) =>
                    /\ Len(t) = 2
                    /\ t[2].resp.st = "ok"
                    /\ calls[c].outcome =
                          Fulfilled(StrValue(formatUnits(t[1].resp.val.digits,
                                                         t[2].resp.val.n).val))

\* C9 witness: two calls for the same token and the same raw balance, each
\* with a decimals query of its own, answered 2 and 0: "1.5" and "150"
C9_Witness ==
    /\ calls[1].op = "getTokenBalance" /\ calls[2].op = "getTokenBalance"
    /\ calls[1].args = <<"tokA">> /\ calls[2].args = <<"tokA">>
    /\ Len(calls[1].trace) = 2 /\ Len(calls[2].trace) = 2
    /\ calls[1].trace[2].resp = Answered(IntValue(2))
    /\ calls[2].trace[2].resp = Answered(IntValue(0))
    /\ calls[1].outcome = Fulfilled(StrValue(<<"1", ".", "5">>))
    /\ calls[2].outcome = Fulfilled(StrValue(<<"1", "5", "0">>))

---------------------------------------------------------------------------
(* C10: only the two send methods submit *)

SuccessfulSends == {c \in Calls : calls[c].op \in SendOps /\ IsFulfilled(c)}

\* C10: the submitted transactions are exactly those of the successful
\* sendTransaction and sendToken calls, one each: every submitted transaction
\* is the one a successful send call requested and got the handle of, no two
\* calls share one, and no other method makes a request through the signing
\* identity.
C10_OnlySendsSubmit ==
    /\ Len(submitted) = Cardinality(SuccessfulSends)
    /\ \A c \in SuccessfulSends :
          LET h == calls[c].outcome.value.hash IN
          /\ h \in 1..Len(submitted)
          /\ submitted[h] = TxOf(h, Pending(c))
          /\ \A k \in SuccessfulSends : calls[k].outcome.value.hash = h => k = c
    /\ \A c \in Calls :
          calls[c].op \notin SendOps =>
             \A i \in 1..Len(calls[c].trace) : calls[c].trace[i].runner = "provider"

\* C10 witness: a balance query and a token send have both returned, and the
\* one transaction submitted is the token transfer
C10_Witness ==
    /\ calls[1].op = "getTokenBalance" /\ IsFulfilled(1)
    /\ calls[2].op = "sendToken" /\ IsFulfilled(2)
    /\ Len(submitted) = 1
    /\ submitted[1].method = "transfer"

=============================================================================
